---------------------------- MODULE Spec2Model ----------------------------
(***************************************************************************)
(* The palette-evaluation pipeline of the monochrome-detection App          *)
(* component (src/unnamed/part_000, lines 1-367): the React state of the    *)
(* component, the image/palette loader, the slider handlers, and the        *)
(* recomputation effect configImages with the pure functions it calls.      *)
(* The earlier variant of the component (src/src/App.tsx), which filters    *)
(* and sorts while rendering, is modelled next to it.                       *)
(*                                                                          *)
(* Numbers.  JavaScript numbers are modelled by integers:                   *)
(*   - a raw hue (ColorInfo.hue, a float in [0,1)) is an integer count of   *)
(*     steps of 1/(1000*HueSubdivisions);                                   *)
(*   - perceptual lightness and chroma are integers in the unit of the      *)
(*     darkThreshold / grayThreshold sliders, perceptual hue is an integer  *)
(*     number of degrees;                                                   *)
(*   - NaN is the distinguished value NaN, with the IEEE rules for          *)
(*     subtraction and !== spelled out (Minus, StrictNotEqual).             *)
(***************************************************************************)
EXTENDS Integers, Sequences, FiniteSets, TLC

VARIABLES
    minColorsRequired,          \* useState(10)           part_000:50
    minDistinctColorsRequired,  \* useState(3)            part_000:51
    darkThreshold,              \* useState(44)           part_000:52
    grayThreshold,              \* useState(6)            part_000:53
    imagesWithPalette,          \* useState([])           part_000:54
    imageConfigs,               \* useState([])           part_000:55
    base64Promises,             \* promises of readImageAsBase64, one per url
    extractedColorsPromises,    \* promises of extractColors, one per url
    loadPc,                     \* position of the async getImagesWithPalettes
    effectPending,              \* a dependency of the configImages effect changed
    call,                       \* arguments of a pure function applied on its own
    ret,                        \* its result
    base64Images,               \* useState([])           App.tsx:19
    colorsInfo,                 \* useState([])           App.tsx:20
    thresholdValue              \* useState(8)            App.tsx:21

\* the state that only src/src/App.tsx has
appTsxVars == <<base64Images, colorsInfo, thresholdValue>>

vars == <<minColorsRequired, minDistinctColorsRequired, darkThreshold,
          grayThreshold, imagesWithPalette, imageConfigs, base64Promises,
          extractedColorsPromises, loadPc, effectPending, call, ret,
          base64Images, colorsInfo, thresholdValue>>

-----------------------------------------------------------------------------
(* Bounds of the model *)

\* number of entries of IMAGE_URLS that are modelled (the program has 17)
NumImages == 2
\* longest freely chosen palette of the single-image specification
MaxPaletteLen == 3
\* longest palette of the single-image specification (cyclic, see LongPalette)
MaxLongPalette == 22
\* steps of the raw hue between two consecutive thousandths
HueSubdivisions == 4
\* largest swatch count / family count handed to the scorer on its own
MaxCount == 24
MaxFamilies == 6
\* thousandths below 0 and beyond 1000 that the out-of-range hues reach, and
\* the thousandth of the two far hues
HueMargin == 500
FarThousandths == 99999

-----------------------------------------------------------------------------
(* JavaScript numbers *)

\* Number.NaN, outside every range a modelled number takes
NaN == 0 - 1000000

\* a - b of two numbers (NaN propagates)
Minus(a, b) == IF a = NaN \/ b = NaN THEN NaN ELSE a - b

\* a !== b of two numbers (NaN differs from everything, itself included)
StrictNotEqual(a, b) == a = NaN \/ b = NaN \/ a # b

Abs(x) == IF x < 0 THEN 0 - x ELSE x

-----------------------------------------------------------------------------
(* determineColorFamily *)

\* Math.round(hue * 1000): the nearest thousandth, halves rounded up
HueRounded(hue) == (2 * hue + HueSubdivisions) \div (2 * HueSubdivisions)

\* determineColorFamily with 900 counted as pink
determineColorFamily_purpleExclusive(hue) ==
    LET hueRounded == HueRounded(hue) IN
    IF hueRounded >= 900 \/ hueRounded <= 50 THEN "(pink)"
    ELSE IF hueRounded > 50 /\ hueRounded <= 140 THEN "(brown)"
    ELSE IF hueRounded > 140 /\ hueRounded <= 490 THEN "(green)"
    ELSE IF hueRounded > 490 /\ hueRounded <= 600 THEN "(blue)"
    ELSE IF hueRounded > 600 /\ hueRounded <= 900 THEN "(purple)"
    ELSE ToString(hueRounded)

\* determineColorFamily with pink kept inside the thousandths 0 .. 1000
determineColorFamily_pinkInEnvelope(hue) ==
    LET hueRounded == HueRounded(hue) IN
    IF (hueRounded > 900 /\ hueRounded <= 1000) \/ (hueRounded >= 0 /\ hueRounded <= 50)
    THEN "(pink)"
    ELSE IF hueRounded > 50 /\ hueRounded <= 140 THEN "(brown)"
    ELSE IF hueRounded > 140 /\ hueRounded <= 490 THEN "(green)"
    ELSE IF hueRounded > 490 /\ hueRounded <= 600 THEN "(blue)"
    ELSE IF hueRounded > 600 /\ hueRounded <= 900 THEN "(purple)"
    ELSE ToString(hueRounded)

determineColorFamily(hue) ==
    LET hueRounded == HueRounded(hue) IN
    IF hueRounded > 900 \/ hueRounded <= 50 THEN "(pink)"
    ELSE IF hueRounded > 50 /\ hueRounded <= 140 THEN "(brown)"
    ELSE IF hueRounded > 140 /\ hueRounded <= 490 THEN "(green)"
    ELSE IF hueRounded > 490 /\ hueRounded <= 600 THEN "(blue)"
    ELSE IF hueRounded > 600 /\ hueRounded <= 900 THEN "(purple)"
    ELSE ToString(hueRounded)

-----------------------------------------------------------------------------
(* The monochrome percentage of configEachImageFinalObject *)

\* The quotients n*100/15 and d*100/5 are kept exact as numerators over
\* ScoreDenominator = 2 * 15; Math.floor of the halved sum's distance to 100
\* is then an integer division.
ScoreDenominator == 2 * 15

\* monochromeScore with the override starting at 20 colours instead of 21
monochromeScore_overrideAt20(n, d) ==
    LET certaintyDependingOnColorAmount == (n * 100) * 2
        certaintyDependingOnDistinctColors == (d * 100) * 6
        mixedPercentages ==
            Abs((certaintyDependingOnColorAmount
                   + certaintyDependingOnDistinctColors) \div 2
                - 100 * ScoreDenominator) \div ScoreDenominator
    IN  IF n >= 20 \/ d > 3 THEN 0 ELSE mixedPercentages

\* monochromeScore without Math.abs
monochromeScore_noAbs(n, d) ==
    LET certaintyDependingOnColorAmount == (n * 100) * 2
        certaintyDependingOnDistinctColors == (d * 100) * 6
        mixedPercentages ==
            ((certaintyDependingOnColorAmount
                   + certaintyDependingOnDistinctColors) \div 2
                - 100 * ScoreDenominator) \div ScoreDenominator
    IN  IF n > 20 \/ d > 3 THEN 0 ELSE mixedPercentages

monochromeScore(n, d) ==
    LET certaintyDependingOnColorAmount == (n * 100) * 2      \* n*100/15
        certaintyDependingOnDistinctColors == (d * 100) * 6   \* d*100/5
        mixedPercentages ==
            Abs((certaintyDependingOnColorAmount
                   + certaintyDependingOnDistinctColors) \div 2
                - 100 * ScoreDenominator) \div ScoreDenominator
    IN  IF n > 20 \/ d > 3 THEN 0 ELSE mixedPercentages

-----------------------------------------------------------------------------
(* Swatches: the ColorInfo records extractColors delivers *)

\* The sample of colours the palettes are drawn from: the hex of each, the
\* triple [lightness, chroma, hue] that chroma.rgb(..).lab() / chroma.lab(..)
\* .lch() gives for its red/green/blue, and its raw hue in thousandths.
\* chroma-js gives an achromatic colour (chroma rounding to 0) the hue NaN.
\* The sample holds a colour on both default thresholds (44, 6), colours
\* below each, colours sharing their perceptual hue (differing in lightness,
\* in chroma, in neither), and one colour of each family.
SwatchTable ==
    [ pink    |-> [lch |-> <<60, 40, 10>>,   hue1000 |-> 30 ],
      brown   |-> [lch |-> <<30, 20, 60>>,   hue1000 |-> 100],
      green   |-> [lch |-> <<70, 50, 130>>,  hue1000 |-> 300],
      olive   |-> [lch |-> <<30, 50, 130>>,  hue1000 |-> 310],
      jade    |-> [lch |-> <<70, 60, 130>>,  hue1000 |-> 320],
      moss    |-> [lch |-> <<70, 50, 130>>,  hue1000 |-> 330],
      blue    |-> [lch |-> <<60, 5, 250>>,   hue1000 |-> 550],
      purple  |-> [lch |-> <<44, 6, 300>>,   hue1000 |-> 700],
      gray    |-> [lch |-> <<50, 0, NaN>>,   hue1000 |-> 0  ] ]

Hexes == DOMAIN SwatchTable

\* a ColorInfo: its hex and its raw hue (the fields the pipeline reads; red,
\* green and blue are read through rgbToCIELCh only)
Swatch(hex) == [hex |-> hex, hue |-> SwatchTable[hex].hue1000 * HueSubdivisions]

Swatches == {Swatch(hex) : hex \in Hexes}

rgbToCIELCh(colorInfo) == SwatchTable[colorInfo.hex].lch

-----------------------------------------------------------------------------
(* sortPalette, filterPalette *)

sortPalette(a, b) ==
    LET A == rgbToCIELCh(a)     \* [lightnessA, chromaA, hueA]
        B == rgbToCIELCh(b)
    IN  IF StrictNotEqual(A[3], B[3]) THEN Minus(A[3], B[3])
        ELSE IF StrictNotEqual(A[1], B[1]) THEN Minus(A[1], B[1])
        ELSE IF StrictNotEqual(A[2], B[2]) THEN Minus(A[2], B[2])
        ELSE 0

\* filterPalette with strict comparisons
filterPalette_strict(colorInfo, dark, gray) ==
    LET lch == rgbToCIELCh(colorInfo) IN
    lch[1] > dark /\ lch[2] > gray

\* filterPalette with the chroma comparison turned around
filterPalette_chromaFlipped(colorInfo, dark, gray) ==
    LET lch == rgbToCIELCh(colorInfo) IN
    lch[1] >= dark /\ lch[2] <= gray

\* dark, gray: the darkThreshold and grayThreshold of the render the
\* function belongs to
filterPalette(colorInfo, dark, gray) ==
    LET lch == rgbToCIELCh(colorInfo) IN
    lch[1] >= dark /\ lch[2] >= gray

-----------------------------------------------------------------------------
(* Array.prototype.sort *)

\* The sort is the one of V8 (Chrome, Node) for arrays of fewer than 64
\* elements: the leading run is found and reversed when descending, the
\* remaining elements are inserted by binary search. Under a consistent
\* comparator it yields the stable sorted order, as every engine does; under
\* an inconsistent one ECMAScript leaves the order to the engine.

\* SortCompare: the comparator's result, NaN counting as +0
SortCompare(v) == IF v = NaN THEN 0 ELSE v

Range(s) == {s[i] : i \in DOMAIN s}

\* the answers of the comparator comparefn (a function of two values of s)
Comparisons(s, comparefn) ==
    [x \in Range(s), y \in Range(s) |-> SortCompare(comparefn[x, y])]

\* CountAndMakeRun: the length of the run that starts s (Len(s) >= 2) and
\* whether it is descending
RunIsDescending(s, order) == order[s[2], s[1]] < 0

RunLength(s, order) ==
    LET continues(idx) ==
            IF RunIsDescending(s, order) THEN order[s[idx], s[idx - 1]] < 0
            ELSE order[s[idx], s[idx - 1]] >= 0
    IN  CHOOSE r \in 2 .. Len(s) :
            /\ \A idx \in 3 .. r : continues(idx)
            /\ r = Len(s) \/ ~continues(r + 1)

\* ReverseRange over the first n elements
ReverseRun(s, n) ==
    [i \in DOMAIN s |-> IF i <= n THEN s[n + 1 - i] ELSE s[i]]

\* the binary search of BinaryInsertionSort: where pivot belongs among the
\* elements at the positions left .. right - 1 (counted from 0)
RECURSIVE InsertionPoint(_, _, _, _, _)
InsertionPoint(s, order, pivot, left, right) ==
    IF left < right
    THEN LET mid == left + ((right - left) \div 2)
         IN  IF order[pivot, s[mid + 1]] < 0
             THEN InsertionPoint(s, order, pivot, left, mid)
             ELSE InsertionPoint(s, order, pivot, mid + 1, right)
    ELSE left

\* BinaryInsertionSort from position start (counted from 0) on
RECURSIVE BinaryInsertionSort(_, _, _)
BinaryInsertionSort(s, order, start) ==
    IF start >= Len(s) THEN s
    ELSE LET pivot == s[start + 1]
             left == InsertionPoint(s, order, pivot, 0, start)
             moved == [i \in DOMAIN s |->
                        IF i <= left THEN s[i]
                        ELSE IF i = left + 1 THEN pivot
                        ELSE IF i <= start + 1 THEN s[i - 1]
                        ELSE s[i]]
         IN  BinaryInsertionSort(moved, order, start + 1)

\* s.sort(comparefn)
ArraySort(s, comparefn) ==
    IF Len(s) < 2 THEN s
    ELSE LET order == Comparisons(s, comparefn)
             runLength == RunLength(s, order)
             run == IF RunIsDescending(s, order) THEN ReverseRun(s, runLength) ELSE s
         IN  BinaryInsertionSort(run, order, runLength)

-----------------------------------------------------------------------------
(* configEachImageColorPalette, configEachImageFinalObject *)

\* imgConfig.colors.filter((color) => filterPalette(color))
FilteredColors(imgConfig, dark, gray) ==
    SelectSeq(imgConfig.colors, LAMBDA color : filterPalette(color, dark, gray))

\* .map((colorInfo) => ({ ...colorInfo, colorFamily: determineColorFamily(colorInfo.hue) }))
ClassifiedColors(colors) ==
    [i \in DOMAIN colors |->
        [hex |-> colors[i].hex, hue |-> colors[i].hue,
         colorFamily |-> determineColorFamily(colors[i].hue)]]

\* filter, classify, sort
configEachImageColorPalette(imgConfig, dark, gray) ==
    LET colors == ClassifiedColors(FilteredColors(imgConfig, dark, gray))
    IN  ArraySort(colors, [a \in Range(colors), b \in Range(colors) |-> sortPalette(a, b)])

\* Array.from(new Set(s)): the values of s in the order of their first occurrence
RECURSIVE ArrayFromSet(_)
ArrayFromSet(s) ==
    IF s = <<>> THEN <<>>
    ELSE LET front == ArrayFromSet(SubSeq(s, 1, Len(s) - 1))
             last == s[Len(s)]
         IN  IF last \in Range(front) THEN front ELSE Append(front, last)

\* FinalObject with both comparisons of valid made strict
FinalObject_validStrict(imgConfig, imageColors, minColors, minDistinct) ==
    LET distinctColors == ArrayFromSet([i \in DOMAIN imageColors |-> imageColors[i].colorFamily])
    IN  [img |-> imgConfig.img,
         colors |-> imageColors,
         distinctColors |-> distinctColors,
         valid |-> Len(distinctColors) > minDistinct /\ Len(imageColors) > minColors,
         monochrome |-> monochromeScore(Len(imageColors), Len(distinctColors))]

\* FinalObject taking the families from the unfiltered palette
FinalObject_rawFamilies(imgConfig, imageColors, minColors, minDistinct) ==
    LET raw == ClassifiedColors(imgConfig.colors)
        distinctColors == ArrayFromSet([i \in DOMAIN raw |-> raw[i].colorFamily])
    IN  [img |-> imgConfig.img,
         colors |-> imageColors,
         distinctColors |-> distinctColors,
         valid |-> Len(distinctColors) >= minDistinct /\ Len(imageColors) >= minColors,
         monochrome |-> monochromeScore(Len(imageColors), Len(distinctColors))]

\* FinalObject that reports an empty palette as valid
FinalObject_emptyValid(imgConfig, imageColors, minColors, minDistinct) ==
    LET distinctColors == ArrayFromSet([i \in DOMAIN imageColors |-> imageColors[i].colorFamily])
    IN  [img |-> imgConfig.img,
         colors |-> imageColors,
         distinctColors |-> distinctColors,
         valid |-> imageColors = <<>>
                   \/ (Len(distinctColors) >= minDistinct /\ Len(imageColors) >= minColors),
         monochrome |-> monochromeScore(Len(imageColors), Len(distinctColors))]

\* FinalObject listing the family of every swatch, without new Set(..)
FinalObject_noSet(imgConfig, imageColors, minColors, minDistinct) ==
    LET distinctColors == [i \in DOMAIN imageColors |-> imageColors[i].colorFamily]
    IN  [img |-> imgConfig.img,
         colors |-> imageColors,
         distinctColors |-> distinctColors,
         valid |-> Len(distinctColors) >= minDistinct /\ Len(imageColors) >= minColors,
         monochrome |-> monochromeScore(Len(imageColors), Len(distinctColors))]

\* the body of configEachImageFinalObject once imageColors is computed
FinalObject(imgConfig, imageColors, minColors, minDistinct) ==
    LET distinctColors == ArrayFromSet([i \in DOMAIN imageColors |-> imageColors[i].colorFamily])
    IN  [img |-> imgConfig.img,
         colors |-> imageColors,
         distinctColors |-> distinctColors,
         valid |-> Len(distinctColors) >= minDistinct /\ Len(imageColors) >= minColors,
         monochrome |-> monochromeScore(Len(imageColors), Len(distinctColors))]

\* dark, gray, minColors, minDistinct: the state of the render the function
\* belongs to; const imageColors = configEachImageColorPalette(imgConfig)
configEachImageFinalObject(imgConfig, dark, gray, minColors, minDistinct) ==
    CHOOSE object \in
        {FinalObject(imgConfig, imageColors, minColors, minDistinct) :
            imageColors \in {configEachImageColorPalette(imgConfig, dark, gray)}} : TRUE

-----------------------------------------------------------------------------
(* configImages *)

\* the comparator of configImages with its operands exchanged
compareMonochrome_descending(a, b) == b.monochrome - a.monochrome

\* (a, b) => a.monochrome - b.monochrome
compareMonochrome(a, b) == a.monochrome - b.monochrome

\* The effect on [minColorsRequired, minDistinctColorsRequired, darkThreshold,
\* grayThreshold, imagesWithPalette]
configImages ==
    /\ effectPending
    /\ \E imageWithPaletteConfigs \in
                {[i \in DOMAIN imagesWithPalette |->
                    configEachImageFinalObject(imagesWithPalette[i], darkThreshold,
                        grayThreshold, minColorsRequired, minDistinctColorsRequired)]} :
         \E finalImagesWithPaletteConfigsSorted \in
                {ArraySort(imageWithPaletteConfigs,
                    [a \in Range(imageWithPaletteConfigs),
                     b \in Range(imageWithPaletteConfigs) |-> compareMonochrome(a, b)])} :
            imageConfigs' = finalImagesWithPaletteConfigsSorted
    /\ effectPending' = FALSE
    /\ UNCHANGED <<minColorsRequired, minDistinctColorsRequired, darkThreshold,
                   grayThreshold, imagesWithPalette, base64Promises,
                   extractedColorsPromises, loadPc, call, ret, appTsxVars>>

-----------------------------------------------------------------------------
(* The controls *)

\* A handler runs once the effects of the last render have run: React runs
\* the pending effects before it renders the next update.

\* the ranges of the four range inputs (min, max)
DarkRange == 0 .. 88
GrayRange == 0 .. 12
MinColorsRange == 0 .. 20
MinDistinctRange == 0 .. 6

\* the positions the sliders are moved to: the defaults of useState and the
\* ends of the ranges
DarkValues == {0, 44}
GrayValues == {0, 6}
MinColorsValues == {0, 10}
MinDistinctValues == {0, 3, 6}

\* onChange of the DARK CUT input
setDarkThreshold ==
    /\ ~effectPending
    /\ \E newValue \in DarkValues :
        /\ newValue # darkThreshold
        /\ darkThreshold' = newValue
    /\ effectPending' = TRUE
    /\ UNCHANGED <<minColorsRequired, minDistinctColorsRequired, grayThreshold,
                   imagesWithPalette, imageConfigs, base64Promises,
                   extractedColorsPromises, loadPc, call, ret, appTsxVars>>

\* setGrayThreshold in a component whose effect does not list grayThreshold
\* among its dependencies
setGrayThreshold_notADependency ==
    /\ ~effectPending
    /\ \E newValue \in GrayValues :
        /\ newValue # grayThreshold
        /\ grayThreshold' = newValue
    /\ UNCHANGED <<minColorsRequired, minDistinctColorsRequired, darkThreshold,
                   imagesWithPalette, imageConfigs, base64Promises,
                   extractedColorsPromises, loadPc, effectPending, call, ret,
                   appTsxVars>>

\* onChange of the GRAY CUT input
setGrayThreshold ==
    /\ ~effectPending
    /\ \E newValue \in GrayValues :
        /\ newValue # grayThreshold
        /\ grayThreshold' = newValue
    /\ effectPending' = TRUE
    /\ UNCHANGED <<minColorsRequired, minDistinctColorsRequired, darkThreshold,
                   imagesWithPalette, imageConfigs, base64Promises,
                   extractedColorsPromises, loadPc, call, ret, appTsxVars>>

\* onChange of the MIN TOTAL COLORS TO PASS input
setMinColorsRequired ==
    /\ ~effectPending
    /\ \E newValue \in MinColorsValues :
        /\ newValue # minColorsRequired
        /\ minColorsRequired' = newValue
    /\ effectPending' = TRUE
    /\ UNCHANGED <<minDistinctColorsRequired, darkThreshold, grayThreshold,
                   imagesWithPalette, imageConfigs, base64Promises,
                   extractedColorsPromises, loadPc, call, ret, appTsxVars>>

\* onChange of the MIN DISTINCT COLORS TO PASS input
setMinDistinctColorsRequired ==
    /\ ~effectPending
    /\ \E newValue \in MinDistinctValues :
        /\ newValue # minDistinctColorsRequired
        /\ minDistinctColorsRequired' = newValue
    /\ effectPending' = TRUE
    /\ UNCHANGED <<minColorsRequired, darkThreshold, grayThreshold,
                   imagesWithPalette, imageConfigs, base64Promises,
                   extractedColorsPromises, loadPc, call, ret, appTsxVars>>

-----------------------------------------------------------------------------
(* readImageAsBase64, extractColors, getImagesWithPalettes *)

Urls == 1 .. NumImages

Pending == [state |-> "pending", value |-> <<>>]
Rejected == [state |-> "rejected", value |-> <<>>]
Fulfilled(v) == [state |-> "fulfilled", value |-> v]

Palette(hexes) == [i \in DOMAIN hexes |-> Swatch(hexes[i])]

\* the images behind IMAGE_URLS are fixed files: the palette extractColors
\* delivers for each (the list is repeated for further urls)
UrlPalettes == <<Palette(<<"olive", "pink">>), Palette(<<"pink", "gray">>),
                 Palette(<<"green", "gray", "pink">>)>>

ExtractedPalette(url) == UrlPalettes[((url - 1) % Len(UrlPalettes)) + 1]

\* the promise of readImageAsBase64(url) resolves: with the data url of the
\* image, or through .catch with ''
readImageAsBase64(url) ==
    /\ base64Promises[url] = Pending
    /\ \E result \in {<<"img", url>>, <<"">>} :
         base64Promises' = [base64Promises EXCEPT ![url] = Fulfilled(result)]
    /\ UNCHANGED <<minColorsRequired, minDistinctColorsRequired, darkThreshold,
                   grayThreshold, imagesWithPalette, imageConfigs,
                   extractedColorsPromises, loadPc, effectPending, call, ret, appTsxVars>>

\* the promise of extractColors(url, ..) settles: with a palette, or rejected
extractColors(url) ==
    /\ extractedColorsPromises[url] = Pending
    /\ \/ extractedColorsPromises' =
                [extractedColorsPromises EXCEPT ![url] = Fulfilled(ExtractedPalette(url))]
       \/ extractedColorsPromises' =
                [extractedColorsPromises EXCEPT ![url] = Rejected]
    /\ UNCHANGED <<minColorsRequired, minDistinctColorsRequired, darkThreshold,
                   grayThreshold, imagesWithPalette, imageConfigs,
                   base64Promises, loadPc, effectPending, call, ret, appTsxVars>>

\* const base64Images = await Promise.all(base64Promises)
awaitBase64Images ==
    /\ loadPc = "awaitBase64"
    /\ \A url \in Urls : base64Promises[url].state = "fulfilled"
    /\ loadPc' = "awaitColors"
    /\ UNCHANGED <<minColorsRequired, minDistinctColorsRequired, darkThreshold,
                   grayThreshold, imagesWithPalette, imageConfigs,
                   base64Promises, extractedColorsPromises, effectPending,
                   call, ret, appTsxVars>>

\* const extractedColors = await Promise.all(extractedColorsPromises) and the
\* rest of getImagesWithPalettes; a rejected promise makes the await throw
awaitExtractedColors ==
    /\ loadPc = "awaitColors"
    /\ \/ /\ \E url \in Urls : extractedColorsPromises[url].state = "rejected"
          /\ loadPc' = "threw"
          /\ UNCHANGED <<imagesWithPalette, effectPending>>
       \/ /\ \A url \in Urls : extractedColorsPromises[url].state = "fulfilled"
          /\ imagesWithPalette' =
                [i \in Urls |-> [img |-> base64Promises[i].value,
                                 colors |-> extractedColorsPromises[i].value]]
          /\ effectPending' = TRUE
          /\ loadPc' = "done"
    /\ UNCHANGED <<minColorsRequired, minDistinctColorsRequired, darkThreshold,
                   grayThreshold, imageConfigs, base64Promises,
                   extractedColorsPromises, call, ret, appTsxVars>>

-----------------------------------------------------------------------------
(* The component: after the first render and its two effects *)

Init ==
    /\ minColorsRequired = 10
    /\ minDistinctColorsRequired = 3
    /\ darkThreshold = 44
    /\ grayThreshold = 6
    /\ imagesWithPalette = <<>>
    /\ imageConfigs = <<>>
    /\ base64Promises = [url \in Urls |-> Pending]
    /\ extractedColorsPromises = [url \in Urls |-> Pending]
    /\ loadPc = "awaitBase64"
    /\ effectPending = FALSE
    /\ call = <<>>
    /\ ret = <<>>
    /\ base64Images = <<>>
    /\ colorsInfo = <<>>
    /\ thresholdValue = 8

Next ==
    \/ \E url \in Urls : readImageAsBase64(url)
    \/ \E url \in Urls : extractColors(url)
    \/ awaitBase64Images
    \/ awaitExtractedColors
    \/ setDarkThreshold
    \/ setGrayThreshold
    \/ setMinColorsRequired
    \/ setMinDistinctColorsRequired
    \/ configImages

Spec == Init /\ [][Next]_vars

-----------------------------------------------------------------------------
(* One image: a loaded batch of a single image, under any position of the  *)
(* controls, with the recomputation effect pending                          *)

\* the palettes of up to MaxPaletteLen swatches
ShortHexes == {"pink", "green", "olive", "jade", "moss", "purple", "gray"}

ShortPalettes ==
    UNION {{Palette(hexes) : hexes \in [1 .. n -> ShortHexes]} : n \in 0 .. MaxPaletteLen}

\* palettes around the 20 colours of the score's override, with three and
\* with five families
LongCycles == {<<"pink", "green", "purple">>,
               <<"pink", "brown", "green", "blue", "purple">>}

LongPalettes ==
    {Palette([i \in 1 .. n |-> cycle[((i - 1) % Len(cycle)) + 1]]) :
        cycle \in LongCycles, n \in (MaxLongPalette - 3) .. MaxLongPalette}

ImagePalettes == ShortPalettes \cup LongPalettes

InitImage ==
    /\ minColorsRequired \in MinColorsValues
    /\ minDistinctColorsRequired \in MinDistinctValues
    /\ darkThreshold \in DarkValues
    /\ grayThreshold \in GrayValues
    /\ \E colors \in ImagePalettes :
        /\ imagesWithPalette = <<[img |-> <<"img", 1>>, colors |-> colors]>>
        /\ extractedColorsPromises = <<Fulfilled(colors)>>
    /\ imageConfigs = <<>>
    /\ base64Promises = <<Fulfilled(<<"img", 1>>)>>
    /\ loadPc = "done"
    /\ effectPending = TRUE
    /\ call = <<>>
    /\ ret = <<>>
    /\ base64Images = <<>>
    /\ colorsInfo = <<>>
    /\ thresholdValue = 8

NextImage == configImages

SpecImage == InitImage /\ [][NextImage]_vars

-----------------------------------------------------------------------------
(* The pure functions on their own *)

InitIdle ==
    /\ minColorsRequired = 10
    /\ minDistinctColorsRequired = 3
    /\ darkThreshold = 44
    /\ grayThreshold = 6
    /\ imagesWithPalette = <<>>
    /\ imageConfigs = <<>>
    /\ base64Promises = [url \in Urls |-> Pending]
    /\ extractedColorsPromises = [url \in Urls |-> Pending]
    /\ loadPc = "awaitBase64"
    /\ effectPending = FALSE
    /\ ret = <<>>
    /\ base64Images = <<>>
    /\ colorsInfo = <<>>
    /\ thresholdValue = 8

UnchangedComponent ==
    UNCHANGED <<minColorsRequired, minDistinctColorsRequired, darkThreshold,
                grayThreshold, imagesWithPalette, imageConfigs, base64Promises,
                extractedColorsPromises, loadPc, effectPending, call, appTsxVars>>

\* the score of n filtered swatches of d families
InitScore ==
    /\ InitIdle
    /\ call \in {<<n, d>> : n \in 0 .. MaxCount, d \in 0 .. MaxFamilies}

applyMonochromeScore ==
    /\ ret = <<>>
    /\ ret' = <<monochromeScore(call[1], call[2])>>
    /\ UnchangedComponent

SpecScore == InitScore /\ [][applyMonochromeScore]_vars

\* the family of a raw hue of [0, 1)
InitFamily ==
    /\ InitIdle
    /\ call \in {<<hue>> : hue \in 0 .. (1000 * HueSubdivisions - 1)}

applyDetermineColorFamily ==
    /\ ret = <<>>
    /\ ret' = <<determineColorFamily(call[1])>>
    /\ UnchangedComponent

SpecFamily == InitFamily /\ [][applyDetermineColorFamily]_vars

\* the family of any finite number passed as hue: the hues up to HueMargin
\* thousandths below 0 and beyond 1, and two far ones
WideHues ==
    ((0 - HueMargin) * HueSubdivisions) .. ((1000 + HueMargin) * HueSubdivisions)
        \cup {(0 - FarThousandths) * HueSubdivisions, FarThousandths * HueSubdivisions}

InitFamilyWide ==
    /\ InitIdle
    /\ call \in {<<hue>> : hue \in WideHues}

SpecFamilyWide == InitFamilyWide /\ [][applyDetermineColorFamily]_vars

-----------------------------------------------------------------------------
(* A batch: a loaded batch of NumImages images, each with one of a few      *)
(* palettes, under any position of the controls, with the recomputation     *)
(* effect pending                                                           *)

\* palettes of no, few and many swatches, of one and of several families
BatchPalettes ==
    { Palette(<<>>),
      Palette(<<"pink">>),
      Palette(<<"olive", "pink">>),
      Palette(<<"green", "gray", "pink">>),
      Palette(<<"pink", "green", "blue", "purple">>),
      Palette(<<"jade", "green", "moss", "green", "jade", "olive">>) }

InitBatch ==
    /\ minColorsRequired \in MinColorsValues
    /\ minDistinctColorsRequired \in MinDistinctValues
    /\ darkThreshold \in DarkValues
    /\ grayThreshold \in GrayValues
    /\ \E palettes \in [Urls -> BatchPalettes] :
          imagesWithPalette = [i \in Urls |-> [img |-> <<"img", i>>, colors |-> palettes[i]]]
    /\ imageConfigs = <<>>
    /\ base64Promises = [url \in Urls |-> Fulfilled(<<"img", url>>)]
    /\ extractedColorsPromises = [url \in Urls |-> Fulfilled(imagesWithPalette[url].colors)]
    /\ loadPc = "done"
    /\ effectPending = TRUE
    /\ call = <<>>
    /\ ret = <<>>
    /\ base64Images = <<>>
    /\ colorsInfo = <<>>
    /\ thresholdValue = 8

NextBatch == configImages

SpecBatch == InitBatch /\ [][NextBatch]_vars

-----------------------------------------------------------------------------
(* src/src/App.tsx: the variant of the component that keeps the images and  *)
(* the palettes in two state variables and sorts and filters each palette   *)
(* while it renders                                                         *)

\* sortFn has the text of sortPalette
sortFn(a, b) == sortPalette(a, b)

\* colorsInfo[i].sort(sortFn): Array.prototype.sort sorts the array it is
\* called on, here the array held in the state, and returns that array
SortedInPlace(colors) ==
    ArraySort(colors, [a \in Range(colors), b \in Range(colors) |-> sortFn(a, b)])

\* the return of App: base64Images.map(..) sorts the palette of every image
\* it shows; the copy that .filter(filterFn) makes of it is displayed and
\* not kept
render ==
    /\ colorsInfo' =
          [i \in DOMAIN colorsInfo |->
              IF i \in DOMAIN base64Images THEN SortedInPlace(colorsInfo[i])
              ELSE colorsInfo[i]]
    /\ UNCHANGED <<minColorsRequired, minDistinctColorsRequired, darkThreshold,
                   grayThreshold, imagesWithPalette, imageConfigs, base64Promises,
                   extractedColorsPromises, loadPc, effectPending, call, ret,
                   base64Images, thresholdValue>>

\* getBase64Images up to setBase64Images(base64Images)
setBase64Images ==
    /\ loadPc = "awaitBase64"
    /\ \A url \in Urls : base64Promises[url].state = "fulfilled"
    /\ base64Images' = [i \in Urls |-> base64Promises[i].value]
    /\ loadPc' = "awaitColors"
    /\ UNCHANGED <<minColorsRequired, minDistinctColorsRequired, darkThreshold,
                   grayThreshold, imagesWithPalette, imageConfigs, base64Promises,
                   extractedColorsPromises, effectPending, call, ret,
                   colorsInfo, thresholdValue>>

\* the rest of getBase64Images: the second await throws on a rejected promise,
\* otherwise setColorsInfo(extractedColors)
setColorsInfo ==
    /\ loadPc = "awaitColors"
    /\ \/ /\ \E url \in Urls : extractedColorsPromises[url].state = "rejected"
          /\ loadPc' = "threw"
          /\ UNCHANGED colorsInfo
       \/ /\ \A url \in Urls : extractedColorsPromises[url].state = "fulfilled"
          /\ colorsInfo' = [i \in Urls |-> extractedColorsPromises[i].value]
          /\ loadPc' = "done"
    /\ UNCHANGED <<minColorsRequired, minDistinctColorsRequired, darkThreshold,
                   grayThreshold, imagesWithPalette, imageConfigs, base64Promises,
                   extractedColorsPromises, effectPending, call, ret,
                   base64Images, thresholdValue>>

ThresholdRange == 0 .. 20
DarkCutRange == 0 .. 100
GrayCutRange == 0 .. 10

\* the positions of the three inputs that are tried
ThresholdValues == {1, 8}
DarkCutValues == {0, 48}
GrayCutValues == {0, 6}

\* onChange of the THRESHOLD input; the effect that depends on thresholdValue
\* calls getBase64Images again (taken once the call before it has ended)
setThresholdValue ==
    /\ loadPc \in {"done", "threw"}
    /\ \E newValue \in ThresholdValues :
        /\ newValue # thresholdValue
        /\ thresholdValue' = newValue
    /\ base64Promises' = [url \in Urls |-> Pending]
    /\ extractedColorsPromises' = [url \in Urls |-> Pending]
    /\ loadPc' = "awaitBase64"
    /\ UNCHANGED <<minColorsRequired, minDistinctColorsRequired, darkThreshold,
                   grayThreshold, imagesWithPalette, imageConfigs, effectPending,
                   call, ret, base64Images, colorsInfo>>

\* onChange of the DARK CUT input of App.tsx
setDarkCut ==
    /\ \E newValue \in DarkCutValues :
        /\ newValue # darkThreshold
        /\ darkThreshold' = newValue
    /\ UNCHANGED <<minColorsRequired, minDistinctColorsRequired, grayThreshold,
                   imagesWithPalette, imageConfigs, base64Promises,
                   extractedColorsPromises, loadPc, effectPending, call, ret,
                   appTsxVars>>

\* onChange of the GRAY CUT input of App.tsx
setGrayCut ==
    /\ \E newValue \in GrayCutValues :
        /\ newValue # grayThreshold
        /\ grayThreshold' = newValue
    /\ UNCHANGED <<minColorsRequired, minDistinctColorsRequired, darkThreshold,
                   imagesWithPalette, imageConfigs, base64Promises,
                   extractedColorsPromises, loadPc, effectPending, call, ret,
                   appTsxVars>>

\* App.tsx after its first render and its effect
InitApp ==
    /\ minColorsRequired = 0
    /\ minDistinctColorsRequired = 0
    /\ darkThreshold = 48
    /\ grayThreshold = 6
    /\ imagesWithPalette = <<>>
    /\ imageConfigs = <<>>
    /\ base64Promises = [url \in Urls |-> Pending]
    /\ extractedColorsPromises = [url \in Urls |-> Pending]
    /\ loadPc = "awaitBase64"
    /\ effectPending = FALSE
    /\ call = <<>>
    /\ ret = <<>>
    /\ base64Images = <<>>
    /\ colorsInfo = <<>>
    /\ thresholdValue = 8

NextApp ==
    \/ \E url \in Urls : readImageAsBase64(url)
    \/ \E url \in Urls : extractColors(url)
    \/ setBase64Images
    \/ setColorsInfo
    \/ render
    \/ setThresholdValue
    \/ setDarkCut
    \/ setGrayCut

SpecApp == InitApp /\ [][NextApp]_vars

-----------------------------------------------------------------------------
(* Properties *)

\* what the properties of one evaluated image read
Lightness(c) == rgbToCIELCh(c)[1]
Chroma(c) == rgbToCIELCh(c)[2]
PerceptualHue(c) == rgbToCIELCh(c)[3]

\* the swatches of a sequence without the fields the pipeline adds
Raw(colors) == [i \in DOMAIN colors |-> [hex |-> colors[i].hex, hue |-> colors[i].hue]]

\* how often x occurs in s
Count(s, x) == Cardinality({i \in DOMAIN s : s[i] = x})

\* the positions of the swatches of colors at or above both thresholds
KeptPositions(colors, dark, gray) ==
    {i \in DOMAIN colors : Lightness(colors[i]) >= dark /\ Chroma(colors[i]) >= gray}

\* the image of the single-image specification and its evaluation
TheImage == imagesWithPalette[1]
TheResult == imageConfigs[1]
Evaluated == imageConfigs # <<>> /\ ~effectPending

\* C1: for all counts n and d handed to the scorer, the score is 0 when
\* n > 20 or d > 3, and otherwise the floor of |((n*100/15)+(d*100/5))/2 - 100|,
\* that is of |10n + 30d - 300| / 3: the integer m with
\* 3m <= |10n + 30d - 300| < 3(m+1). (3,3) gives 60, (20,3) gives the blend 3
\* and (21,3) gives 0.
C1_MonochromeScoreFormula ==
    ret # <<>> =>
        LET n == call[1]
            d == call[2]
            m == ret[1]
            distance == Abs(10 * n + 30 * d - 300)
        IN  /\ (n > 20 \/ d > 3) => m = 0
            /\ ~(n > 20 \/ d > 3) => (3 * m <= distance /\ distance < 3 * (m + 1))
            /\ (n = 3 /\ d = 3) => m = 60
            /\ (n = 20 /\ d = 3) => m = 3
            /\ (n = 21 /\ d = 3) => m = 0

C1_Witness == call = <<20, 3>> /\ ret = <<3>>

\* C2: every evaluated image has an integer monochrome score in 0..100.
C2_ScoreInRange ==
    \A i \in DOMAIN imageConfigs : imageConfigs[i].monochrome \in 0 .. 100

C2_Witness ==
    /\ Evaluated
    /\ Len(TheResult.colors) = 20
    /\ Len(TheResult.distinctColors) = 3
    /\ TheResult.monochrome = 3

\* C3: the valid flag of an evaluated image is (number of distinct families
\* >= minDistinctColorsRequired) and (number of filtered swatches >=
\* minColorsRequired), both counted on the filtered palette of that image.
C3_ValidFormula ==
    Evaluated =>
        LET families == {determineColorFamily(TheImage.colors[i].hue) :
                            i \in KeptPositions(TheImage.colors, darkThreshold, grayThreshold)}
            n == Cardinality(KeptPositions(TheImage.colors, darkThreshold, grayThreshold))
        IN  TheResult.valid =
                (Cardinality(families) >= minDistinctColorsRequired
                 /\ n >= minColorsRequired)

C3_Witness ==
    /\ Evaluated
    /\ TheResult.valid
    /\ Len(TheResult.colors) = 3
    /\ Len(TheImage.colors) = 3
    /\ minDistinctColorsRequired = 3

\* C4 as claimed: an empty swatch list yields n = 0, d = 0, valid = false and
\* score 100 under every configuration.
C4_EmptyPaletteInvalid ==
    (Evaluated /\ TheImage.colors = <<>>) =>
        /\ TheResult.colors = <<>>
        /\ TheResult.distinctColors = <<>>
        /\ TheResult.valid = FALSE
        /\ TheResult.monochrome = 100

\* C4 as amended: an empty swatch list yields n = 0, d = 0 and score 100
\* under every configuration; valid is false unless minColorsRequired and
\* minDistinctColorsRequired are both 0, and then it is true.
C4_EmptyPalette ==
    (Evaluated /\ TheImage.colors = <<>>) =>
        /\ TheResult.colors = <<>>
        /\ TheResult.distinctColors = <<>>
        /\ TheResult.valid = (minColorsRequired = 0 /\ minDistinctColorsRequired = 0)
        /\ TheResult.monochrome = 100

C4_Witness ==
    /\ Evaluated
    /\ TheImage.colors = <<>>
    /\ minColorsRequired = 10
    /\ TheResult.valid = FALSE
    /\ TheResult.monochrome = 100

\* C5: for every hue of [0,1), with r the nearest thousandth (halves up), the
\* family is pink for r > 900 or r <= 50, brown for 50 < r <= 140, green for
\* 140 < r <= 490, blue for 490 < r <= 600, purple for 600 < r <= 900: one
\* of the five names and never the decimal string of r.
C5_FamilyPartition ==
    ret # <<>> =>
        LET hue == call[1]
            r == CHOOSE k \in 0 .. 1000 :
                    /\ (2 * k - 1) * HueSubdivisions <= 2 * hue
                    /\ 2 * hue < (2 * k + 1) * HueSubdivisions
            family == ret[1]
        IN  /\ family \in {"(pink)", "(brown)", "(green)", "(blue)", "(purple)"}
            /\ family = "(pink)" <=> (r > 900 \/ r <= 50)
            /\ family = "(brown)" <=> (50 < r /\ r <= 140)
            /\ family = "(green)" <=> (140 < r /\ r <= 490)
            /\ family = "(blue)" <=> (490 < r /\ r <= 600)
            /\ family = "(purple)" <=> (600 < r /\ r <= 900)

C5_Witness == call = <<900 * HueSubdivisions>> /\ ret = <<"(purple)">>

\* C6: the filtered palette holds exactly the input swatches with lightness
\* >= darkThreshold and chroma >= grayThreshold (equality keeps the swatch),
\* each as often as the input holds it, and before sorting they are in the
\* order of the input.
C6_FilterContract ==
    Evaluated =>
        LET input == TheImage.colors
            kept == KeptPositions(input, darkThreshold, grayThreshold)
            filtered == FilteredColors(TheImage, darkThreshold, grayThreshold)
        IN  /\ \A c \in Swatches :
                Count(Raw(TheResult.colors), c) = Cardinality({i \in kept : input[i] = c})
            /\ Len(filtered) = Cardinality(kept)
            /\ \A i \in kept : filtered[Cardinality({j \in kept : j <= i})] = input[i]

C6_Witness ==
    /\ Evaluated
    /\ darkThreshold = 44
    /\ grayThreshold = 6
    /\ TheImage.colors = Palette(<<"olive", "purple", "gray">>)
    /\ Raw(TheResult.colors) = Palette(<<"purple">>)

\* the slider positions at which the filter may change what it keeps: the
\* ends of the ranges, and the positions at and next above a lightness or a
\* chroma of the sample
DarkProbes ==
    {d \in DarkRange : d \in {0, 88} \/ \E c \in Swatches : d \in {Lightness(c), Lightness(c) + 1}}
GrayProbes ==
    {g \in GrayRange : g \in {0, 12} \/ \E c \in Swatches : g \in {Chroma(c), Chroma(c) + 1}}

\* C7: for the same input palette, every pair of such slider positions at
\* or above the current ones keeps a subset of the swatches kept
\* now, and no more swatches than now.
C7_FilterMonotone ==
    Evaluated =>
        \A dark2 \in DarkProbes, gray2 \in GrayProbes :
            (dark2 >= darkThreshold /\ gray2 >= grayThreshold) =>
                LET filtered2 == FilteredColors(TheImage, dark2, gray2)
                IN  /\ Range(filtered2) \subseteq Range(Raw(TheResult.colors))
                    /\ Len(filtered2) <= Len(TheResult.colors)

C7_Witness ==
    /\ Evaluated
    /\ darkThreshold = 0
    /\ grayThreshold = 0
    /\ Len(TheResult.colors) = 3
    /\ FilteredColors(TheImage, 44, 6) = Palette(<<"purple">>)

\* comparisons of JavaScript numbers: false when an operand is NaN
Less(a, b) == a # NaN /\ b # NaN /\ a < b
Equal(a, b) == a # NaN /\ b # NaN /\ a = b

\* a comes before b in the order by perceptual hue, then lightness, then chroma
KeyLess(a, b) ==
    \/ Less(PerceptualHue(a), PerceptualHue(b))
    \/ /\ Equal(PerceptualHue(a), PerceptualHue(b))
       /\ \/ Less(Lightness(a), Lightness(b))
          \/ Equal(Lightness(a), Lightness(b)) /\ Less(Chroma(a), Chroma(b))

KeyEqual(a, b) ==
    /\ Equal(PerceptualHue(a), PerceptualHue(b))
    /\ Equal(Lightness(a), Lightness(b))
    /\ Equal(Chroma(a), Chroma(b))

\* C8: the colors of an evaluated image are the filtered swatches, each as
\* often as the filter kept it, in ascending order of (perceptual hue,
\* lightness, chroma) whatever the input order: no swatch stands before one
\* that precedes it in that order, and swatches equal in all three stand in
\* their input order.
C8_SortedByHueLightnessChroma ==
    Evaluated =>
        LET sorted == Raw(TheResult.colors)
            filtered == FilteredColors(TheImage, darkThreshold, grayThreshold)
        IN  /\ \A c \in Swatches : Count(sorted, c) = Count(filtered, c)
            /\ \A i, j \in DOMAIN sorted : i < j => ~KeyLess(sorted[j], sorted[i])
            /\ \A c \in Swatches :
                  SelectSeq(sorted, LAMBDA x : KeyEqual(x, c))
                    = SelectSeq(filtered, LAMBDA x : KeyEqual(x, c))

C10_DistinctFromFiltered ==
    Evaluated =>
        LET input == TheImage.colors
            kept == KeptPositions(input, darkThreshold, grayThreshold)
            distinct == TheResult.distinctColors
        IN  /\ Cardinality(Range(distinct)) = Len(distinct)
            /\ Range(distinct) = {determineColorFamily(input[i].hue) : i \in kept}

C10_Witness ==
    /\ Evaluated
    /\ darkThreshold = 44
    /\ TheImage.colors = Palette(<<"olive", "pink", "pink">>)
    /\ TheResult.distinctColors = <<"(pink)">>


\* C11: no recomputation and no render changes its inputs in place: the
\* stored palettes stay as extraction delivered them, order included.
\* Stated for App.tsx, whose render sorts the palettes held in colorsInfo.
C11_RawBatchAsDelivered ==
    loadPc = "done" =>
        colorsInfo = [i \in Urls |-> extractedColorsPromises[i].value]

\* C12: a failure of the fetch or of the extraction of one image is replaced
\* by an empty placeholder: once the loader has passed both awaits the batch
\* is stored with an entry for every url, the entry of a failed fetch has
\* the empty image string, and the recomputation evaluates every entry.
C12_FailureGivesPlaceholder ==
    /\ loadPc \in {"done", "threw"} =>
          /\ Len(imagesWithPalette) = NumImages
          /\ \A url \in Urls :
                base64Promises[url].value = <<"">> => imagesWithPalette[url].img = <<"">>
          /\ \A url \in Urls :
                extractedColorsPromises[url].state = "rejected"
                    => imagesWithPalette[url].colors = <<>>
    /\ (loadPc \in {"done", "threw"} /\ ~effectPending) =>
          Len(imageConfigs) = NumImages

\* the evaluation of the current batch under the current position of the
\* four controls
Evaluation ==
    LET evaluated ==
            [i \in DOMAIN imagesWithPalette |->
                configEachImageFinalObject(imagesWithPalette[i], darkThreshold,
                    grayThreshold, minColorsRequired, minDistinctColorsRequired)]
    IN  ArraySort(evaluated,
            [a \in Range(evaluated), b \in Range(evaluated) |-> compareMonochrome(a, b)])

\* what the recomputation reads
EffectInputs ==
    <<minColorsRequired, minDistinctColorsRequired, darkThreshold, grayThreshold,
      imagesWithPalette>>

\* the component with its effect run whenever it is pending
SpecLive == Spec /\ WF_vars(configImages)

\* C13: every change of one of the four controls or of the batch makes the
\* recomputation pending; a pending recomputation is eventually run; and
\* whenever none is pending imageConfigs is the evaluation of the current
\* batch under the current configuration, whatever came before.
C13_ResultFollowsInputs ==
    /\ [][EffectInputs' # EffectInputs => effectPending']_vars
    /\ [](~effectPending => imageConfigs = Evaluation)
    /\ (effectPending ~> (~effectPending /\ imageConfigs = Evaluation))

\* both cuts moved off their initial positions, one after the other, and the
\* loaded batch evaluated under the positions they have now
C13_Witness ==
    /\ loadPc = "done"
    /\ ~effectPending
    /\ darkThreshold = 0
    /\ grayThreshold = 0
    /\ minDistinctColorsRequired = 0
    /\ Len(imageConfigs) = NumImages
    /\ imageConfigs = Evaluation
    /\ \A k \in DOMAIN imageConfigs : imageConfigs[k].valid = (minColorsRequired = 0)

\* C14: the loads and the extractions are joined before anything is
\* published: the state the renderer reads holds either no image at all or
\* every image together with its swatch list.
\* Stated for App.tsx, which publishes base64Images and colorsInfo apart.
C14_BatchAllOrNothing ==
    \/ base64Images = <<>> /\ colorsInfo = <<>>
    \/ Len(base64Images) = NumImages /\ Len(colorsInfo) = NumImages

\* C15: configImages leaves the evaluated images in descending order of the
\* number of distinct families: an image never stands before one with more
\* distinct families.
C15_RankedByDistinctDescending ==
    \A i, j \in DOMAIN imageConfigs :
        i < j => Len(imageConfigs[i].distinctColors) >= Len(imageConfigs[j].distinctColors)

\* the five families determineColorFamily names
NamedFamilies == {"(pink)", "(brown)", "(green)", "(blue)", "(purple)"}

\* the largest position of the MIN DISTINCT COLORS TO PASS input
MaxMinDistinct == CHOOSE v \in MinDistinctRange : \A w \in MinDistinctRange : w <= v

\* C16: an evaluated image has at most as many distinct families as it has
\* swatches left and at most five; with minDistinctColorsRequired at 6, the
\* end of its input, the image is not valid whatever the other controls say.
C16_AtMostFiveFamilies ==
    Evaluated =>
        LET n == Len(TheResult.colors)
            d == Len(TheResult.distinctColors)
        IN  /\ d <= n
            /\ d <= Cardinality(NamedFamilies)
            /\ minDistinctColorsRequired = MaxMinDistinct => ~TheResult.valid

\* five families, no minimum of swatches, and still not valid
C16_Witness ==
    /\ Evaluated
    /\ minDistinctColorsRequired = 6
    /\ minColorsRequired = 0
    /\ Len(TheResult.distinctColors) = 5
    /\ Len(TheResult.colors) > 5
    /\ ~TheResult.valid

\* the thousandth Math.round gives for a hue: the k with k - 1/2 <= hue * 1000
\* < k + 1/2
NearestThousandth(hue) ==
    CHOOSE k \in {0 - FarThousandths, FarThousandths}
                    \cup ((0 - HueMargin - 1) .. (1000 + HueMargin + 1)) :
        /\ (2 * k - 1) * HueSubdivisions <= 2 * hue
        /\ 2 * hue < (2 * k + 1) * HueSubdivisions

\* C17: for every finite hue, also outside [0,1), the family is one of the
\* five names and never the decimal string of r = round(hue * 1000); every
\* r < 0 and every r > 1000 is pink.
C17_FallbackUnreachable ==
    ret # <<>> =>
        LET r == NearestThousandth(call[1])
        IN  /\ ret[1] \in NamedFamilies
            /\ ret[1] # ToString(r)
            /\ (r < 0 \/ r > 1000) => ret[1] = "(pink)"

\* a hue beyond 1, classified
C17_Witness == call = <<1200 * HueSubdivisions>> /\ ret = <<"(pink)">>

=============================================================================
